---------------------------- MODULE Spec2Model ----------------------------
(***************************************************************************)
(* Gesture recognition (MediaPipeHandTracker) and particle lifecycle       *)
(* (ParticleSystem) of the Naruto gesture constellation generator.         *)
(*                                                                         *)
(* Numbers.  A JavaScript number is modelled as an exact rational <<n,d>>  *)
(* in lowest terms (d > 0).  Landmark coordinates are kept in the state as *)
(* integers counting hundredths of the normalised frame (x = 40 is 0.40).  *)
(* Times are integer milliseconds, as Date.now() returns them.             *)
(***************************************************************************)
EXTENDS Integers, Sequences, FiniteSets, TLC

VARIABLES
    clock,          \* wall clock in ms: Date.now() and performance.now()
    currentHands,   \* this.currentHands: the hands of the last delivered frame
    previousHands,  \* this.previousHands: <<>> (undefined) or <<left, right>>
    gestureState,   \* this.gestureState
    particles,      \* particleSystem.particles
    isActive,       \* particleSystem.isActive
    animationId,    \* particleSystem.animationId: 0 (null) or the pending request
    lastTime,       \* particleSystem.lastTime
    scheduled,      \* number of requestAnimationFrame callbacks pending
    lastEvent,      \* history: what the last handler did (kind, spawned, threw, ...)
    frameSpawnAt,   \* history: clock of the latest spawn fired by processGestures, -1 if none
    frameSpawns     \* history: number of spawns fired by processGestures

vars == <<clock, currentHands, previousHands, gestureState, particles,
          isActive, animationId, lastTime, scheduled, lastEvent, frameSpawnAt,
          frameSpawns>>

-----------------------------------------------------------------------------
(* Rational arithmetic standing for JavaScript number arithmetic.           *)
(*                                                                          *)
(* An operator that uses an argument more than once first binds it with a   *)
(* set constructor (x \in {a}), so that the argument is evaluated once.     *)

Abs(a) == IF a < 0 THEN -a ELSE a

RECURSIVE GCD(_, _)
GCD(a, b) ==
    IF b = 0 THEN a
    ELSE CHOOSE g \in {GCD(y, r) : y \in {b}, r \in {a % b}} : TRUE

Reduce(n, d, g) == <<n \div g, d \div g>>

\* n/d in lowest terms with a positive denominator (d # 0)
R(n, d) ==
    CHOOSE q \in UNION {{Reduce(IF b < 0 THEN -a ELSE a, Abs(b), g) :
                            g \in {GCD(Abs(a), Abs(b))}} :
                         a \in {n}, b \in {d}} : TRUE

RZero == <<0, 1>>
ROne  == <<1, 1>>

RAdd(a, b) ==
    CHOOSE q \in {R(x[1] * y[2] + y[1] * x[2], x[2] * y[2]) :
                    x \in {a}, y \in {b}} : TRUE
RSub(a, b) ==
    CHOOSE q \in {R(x[1] * y[2] - y[1] * x[2], x[2] * y[2]) :
                    x \in {a}, y \in {b}} : TRUE
RMul(a, b) ==
    CHOOSE q \in {R(x[1] * y[1], x[2] * y[2]) : x \in {a}, y \in {b}} : TRUE
RDiv(a, b) ==                                 \* b # 0
    CHOOSE q \in {R(x[1] * y[2], x[2] * y[1]) : x \in {a}, y \in {b}} : TRUE
RLt(a, b)  == \E x \in {a}, y \in {b} : x[1] * y[2] < y[1] * x[2]
RLe(a, b)  == \E x \in {a}, y \in {b} : x[1] * y[2] <= y[1] * x[2]
\* Math.max and Math.min
RMax(a, b) ==
    CHOOSE q \in {IF x[1] * y[2] < y[1] * x[2] THEN y ELSE x :
                    x \in {a}, y \in {b}} : TRUE
RMin(a, b) ==
    CHOOSE q \in {IF y[1] * x[2] < x[1] * y[2] THEN y ELSE x :
                    x \in {a}, y \in {b}} : TRUE

\* largest r in lo..hi with r*r <= n (lo*lo <= n)
RECURSIVE SqrtSearch(_, _, _)
SqrtSearch(n, lo, hi) ==
    IF lo >= hi THEN lo
    ELSE CHOOSE r \in {IF mid * mid <= n THEN SqrtSearch(n, mid, hi)
                                         ELSE SqrtSearch(n, lo, mid - 1) :
                       mid \in {(lo + hi + 1) \div 2}} : TRUE

Max3(a, b, c) ==
    IF a >= b /\ a >= c THEN a ELSE IF b >= c THEN b ELSE c

\* the integer part of Math.sqrt(dx*dx + dy*dy + dz*dz) for dx, dy, dz >= 0:
\* the root lies between the largest of the three and their sum
Sqrt3(dx, dy, dz) ==
    SqrtSearch(dx * dx + dy * dy + dz * dz, Max3(dx, dy, dz), dx + dy + dz)

-----------------------------------------------------------------------------
(* Geometry utilities                                                       *)
(*                                                                          *)
(* A point is [x, y, z, d]: the coordinates x/d, y/d, z/d in hundredths.    *)
(* Landmarks have d = 1; the centre of n landmarks has d = n.               *)

\* a landmark of the state as a point
Pt(landmark) == [x |-> landmark.x, y |-> landmark.y, z |-> landmark.z, d |-> 1]

\* Math.sqrt(dx*dx + dy*dy + dz*dz), counted in units of 1/(point1.d * point2.d)
\* hundredths and rounded down to that unit (the inputs used make it exact)
DistanceUnits(point1, point2) ==
    CHOOSE r \in {Sqrt3(dx, dy, dz) :
                    dx \in {Abs(point1.x * point2.d - point2.x * point1.d)},
                    dy \in {Abs(point1.y * point2.d - point2.y * point1.d)},
                    dz \in {Abs(point1.z * point2.d - point2.z * point1.d)}} : TRUE

\* calculateDistance(point1, point2)
calculateDistance(point1, point2) ==
    R(DistanceUnits(point1, point2), 100 * point1.d * point2.d)

RECURSIVE SumField(_, _, _)
SumField(landmarks, i, f) ==
    IF i > Len(landmarks) THEN 0
    ELSE (IF f = "x" THEN landmarks[i].x
          ELSE IF f = "y" THEN landmarks[i].y ELSE landmarks[i].z)
         + SumField(landmarks, i + 1, f)

\* calculateHandCenter(landmarks); landmarks is not empty where this is used
calculateHandCenter(landmarks) ==
    [x |-> SumField(landmarks, 1, "x"), y |-> SumField(landmarks, 1, "y"),
     z |-> SumField(landmarks, 1, "z"), d |-> Len(landmarks)]

-----------------------------------------------------------------------------
(* Stability tracker                                                        *)

Undefined == <<>>       \* previousHands before the first two-hand classification

Min(a, b) == IF a < b THEN a ELSE b

\* the distances of the landmark pairs i..n added up, in hundredths
RECURSIVE SumMovement(_, _, _, _)
SumMovement(currentHand, previousHand, i, n) ==
    IF i > n THEN 0
    ELSE DistanceUnits(Pt(currentHand[i]), Pt(previousHand[i]))
         + SumMovement(currentHand, previousHand, i + 1, n)

\* calculateHandMovement(currentHand, previousHand).  Both arguments are arrays
\* wherever the code calls it, so the "return 1.0" guard for a missing hand is
\* never taken; currentHand is not empty (an empty hand throws earlier).
calculateHandMovement(currentHand, previousHand) ==
    R(SumMovement(currentHand, previousHand, 1,
                  Min(Len(currentHand), Len(previousHand))),
      100 * Len(currentHand))

\* a variant of StabilityOf that adds the two movements without halving
StabilityOfSum(leftMovement, rightMovement) ==
    RMax(RZero, RSub(ROne, RMul(RAdd(leftMovement, rightMovement), R(10, 1))))

\* Math.max(0, 1.0 - avgMovement * 10) of the two hands' movements
StabilityOf(leftMovement, rightMovement) ==
    LET avgMovement == RDiv(RAdd(leftMovement, rightMovement), R(2, 1))
    IN  RMax(RZero, RSub(ROne, RMul(avgMovement, R(10, 1))))

\* a variant of calculateHandStability that does not store the first hands
calculateHandStabilityNoStore(leftHand, rightHand, prev) ==
    IF prev = Undefined
    THEN [stability |-> R(1, 2), previousHands |-> prev]
    ELSE [stability |-> StabilityOf(calculateHandMovement(leftHand, prev[1]),
                                    calculateHandMovement(rightHand, prev[2])),
          previousHands |-> <<leftHand, rightHand>>]

\* a variant of calculateHandStability that compares each hand with the
\* other hand's previous position
calculateHandStabilityCrossed(leftHand, rightHand, prev) ==
    IF prev = Undefined
    THEN [stability |-> R(1, 2), previousHands |-> <<leftHand, rightHand>>]
    ELSE [stability |-> StabilityOf(calculateHandMovement(leftHand, prev[2]),
                                    calculateHandMovement(rightHand, prev[1])),
          previousHands |-> <<leftHand, rightHand>>]

\* calculateHandStability(leftHand, rightHand) with this.previousHands = prev:
\* the value returned and this.previousHands afterwards
calculateHandStability(leftHand, rightHand, prev) ==
    IF prev = Undefined
    THEN [stability |-> R(1, 2), previousHands |-> <<leftHand, rightHand>>]
    ELSE [stability |-> StabilityOf(calculateHandMovement(leftHand, prev[1]),
                                    calculateHandMovement(rightHand, prev[2])),
          previousHands |-> <<leftHand, rightHand>>]

-----------------------------------------------------------------------------
(* Gesture classifier                                                       *)

NoMetrics == <<>>       \* metrics: null / absent

WristThreshold  == R(25, 100)    \* wristDistance < 0.25
CenterThreshold == R(20, 100)    \* centerDistance < 0.20
StableThreshold == R(7, 10)      \* stability > 0.7

\* a variant of IsClose that looks at the wrists only
IsCloseWristOnly(wristDistance, centerDistance) ==
    RLt(wristDistance, WristThreshold)

\* a variant of IsClose that admits the two thresholds themselves
IsCloseInclusive(wristDistance, centerDistance) ==
    RLe(wristDistance, WristThreshold) /\ RLe(centerDistance, CenterThreshold)

IsClose(wristDistance, centerDistance) ==
    RLt(wristDistance, WristThreshold) /\ RLt(centerDistance, CenterThreshold)

IsStable(stability) == RLt(StableThreshold, stability)

\* a variant of ConfidenceScore whose proximity score is wristDistance / 0.25
ConfidenceScoreRising(wristDistance, stability) ==
    LET proximityScore == RMax(RZero, RDiv(wristDistance, WristThreshold))
    IN  RAdd(RMul(proximityScore, R(7, 10)), RMul(stability, R(3, 10)))

\* a variant of ConfidenceScore with equal weights
ConfidenceScoreEven(wristDistance, stability) ==
    LET proximityScore == RMax(RZero, RSub(ROne, RDiv(wristDistance, WristThreshold)))
    IN  RAdd(RMul(proximityScore, R(5, 10)), RMul(stability, R(5, 10)))

\* a variant of ConfidenceScore with the two weights exchanged
ConfidenceScoreSwapped(wristDistance, stability) ==
    LET proximityScore == RMax(RZero, RSub(ROne, RDiv(wristDistance, WristThreshold)))
    IN  RAdd(RMul(proximityScore, R(3, 10)), RMul(stability, R(7, 10)))

\* the confidence score of a detected gesture, before Math.min(confidence, 1.0)
ConfidenceScore(wristDistance, stability) ==
    LET proximityScore == RMax(RZero, RSub(ROne, RDiv(wristDistance, WristThreshold)))
    IN  RAdd(RMul(proximityScore, R(7, 10)), RMul(stability, R(3, 10)))

\* a variant of GestureResult that scores the confidence whether detected
\* or not
GestureResultUngated(wristDistance, centerDistance, stability) ==
    LET detected == IsClose(wristDistance, centerDistance) /\ IsStable(stability)
    IN  [detected |-> detected,
         confidence |-> RMin(ConfidenceScore(wristDistance, stability), ROne),
         metrics |-> <<[wristDistance |-> wristDistance,
                        centerDistance |-> centerDistance,
                        stability |-> stability]>>,
         reason |-> IF detected THEN "Hands positioned for gesture"
                    ELSE "Hands too far apart or unstable"]

\* the object detectBasicGesture returns for two hands, from its three metrics
GestureResult(wristDistance, centerDistance, stability) ==
    LET detected == IsClose(wristDistance, centerDistance) /\ IsStable(stability)
    IN  [detected |-> detected,
         confidence |-> RMin(IF detected
                             THEN ConfidenceScore(wristDistance, stability)
                             ELSE RZero, ROne),
         metrics |-> <<[wristDistance |-> wristDistance,
                        centerDistance |-> centerDistance,
                        stability |-> stability]>>,
         reason |-> IF detected THEN "Hands positioned for gesture"
                    ELSE "Hands too far apart or unstable"]

\* a variant of WrongHandCount that forgets the stored hands
WrongHandCountForgets(prev) ==
    [threw |-> FALSE,
     result |-> [detected |-> FALSE, confidence |-> RZero,
                 metrics |-> NoMetrics, reason |-> "Need exactly 2 hands"],
     previousHands |-> Undefined]

\* the early return of detectBasicGesture: !hands || hands.length !== 2
WrongHandCount(prev) ==
    [threw |-> FALSE,
     result |-> [detected |-> FALSE, confidence |-> RZero,
                 metrics |-> NoMetrics, reason |-> "Need exactly 2 hands"],
     previousHands |-> prev]

\* detectBasicGesture(hands) with this.previousHands = prev.
\*   threw         : a TypeError left the function (a hand without landmark 0)
\*   result        : the object returned
\*   previousHands : this.previousHands afterwards
detectBasicGesture(hands, prev) ==
    IF Len(hands) # 2 THEN WrongHandCount(prev)
    ELSE IF Len(hands[1]) = 0 \/ Len(hands[2]) = 0
    THEN [threw |-> TRUE,
          result |-> [detected |-> FALSE, confidence |-> RZero,
                      metrics |-> NoMetrics, reason |-> "TypeError"],
          previousHands |-> prev]
    ELSE CHOOSE out \in
           {[threw |-> FALSE,
             result |-> GestureResult(wristDistance, centerDistance, st.stability),
             previousHands |-> st.previousHands] :
              wristDistance \in {calculateDistance(Pt(hands[1][1]), Pt(hands[2][1]))},
              centerDistance \in {calculateDistance(calculateHandCenter(hands[1]),
                                                    calculateHandCenter(hands[2]))},
              st \in {calculateHandStability(hands[1], hands[2], prev)}} : TRUE

-----------------------------------------------------------------------------
(* Inputs                                                                   *)

NumLandmarks == 21

\* a hand of n landmarks: the wrist at (wx, wy, wz), landmark i shifted by
\* i * spread along x
MkHand(wx, wy, wz, spread, n) ==
    [i \in 1..n |-> [x |-> wx + spread * (i - 1), y |-> wy, z |-> wz]]

\* hands held flat at x = 0.40, 0.43, 0.45, 0.46 and 0.50
H40 == MkHand(40, 50, 0, 0, NumLandmarks)
H43 == MkHand(43, 50, 0, 0, NumLandmarks)
H45 == MkHand(45, 50, 0, 0, NumLandmarks)
H46 == MkHand(46, 50, 0, 0, NumLandmarks)
H50 == MkHand(50, 50, 0, 0, NumLandmarks)
\* a hand 0.07 away from H40 in all three coordinates: (0.02, 0.03, 0.06)
H42 == MkHand(42, 53, 6, 0, NumLandmarks)
\* the wrist at 0.65 and the fingers reaching back: centre at 0.65 - 0.10
H65 == MkHand(65, 50, 0, -1, NumLandmarks)
\* the wrist at 0.50 and the fingers reaching on: centre at 0.50 + 0.10
H50f == MkHand(50, 50, 0, 1, NumLandmarks)
\* the wrist at 0.70 and the centre at 0.50; the wrist at 0.50 and the centre
\* at 0.70
H70 == MkHand(70, 50, 0, -2, NumLandmarks)
H50g == MkHand(50, 50, 0, 2, NumLandmarks)
\* a hand held flat at x = 0.48, 0.08 away from H40
H48 == MkHand(48, 50, 0, 0, NumLandmarks)
\* the wrist at 0.45 and the centre at 0.65
H45g == MkHand(45, 50, 0, 2, NumLandmarks)
\* a hand without landmarks
\* two hands held flat at the left edge of the frame, x = 0
H00  == MkHand(0, 50, 0, 0, NumLandmarks)
H00b == MkHand(0, 53, 0, 0, NumLandmarks)
NoLandmarks == <<>>
\* a hand of 5 landmarks and a hand of 22 landmarks
H46short == MkHand(46, 50, 0, 0, 5)
H46long == MkHand(46, 50, 0, 0, NumLandmarks + 1)

\* the frames the tracker delivers in Spec: no hand, one hand, a close pair,
\* a pair that follows it with confidence 0.8, and a pair with a hand that
\* has no landmarks
Frames ==
    { <<>>, <<H40>>, <<H43, H46>>, <<H40, H45>>, <<H40, NoLandmarks>> }

\* the frames of SpecFrames: pairs on and around the thresholds
PairFrames ==
    {<<a, b>> : a \in {H40, H42, H43}, b \in {H43, H45, H65, H50f}}
        \cup {<<H43, H46>>, <<H40, H50>>, <<H65, H43>>, <<H40, H70>>,
              <<H40, H50g>>, <<H40, H45g>>, <<H40, H48>>}

\* the frames of SpecMalformed: a close pair and pairs with a hand that has
\* too few or too many landmarks
MalformedFrames ==
    { <<H43, H46>>, <<H40, H46short>>, <<H40, H46long>>, <<H40, NoLandmarks>> }

\* milliseconds between two consecutive events
FrameDeltas == {500}
TickDeltas  == {500}

MaxSteps == 3           \* the clock of Spec runs for MaxSteps * 500 ms

MaxClock == 1000 + MaxSteps * 500

-----------------------------------------------------------------------------
(* Trigger policy: processGestures                                          *)

Absent == -1            \* a field the object does not have (lastTrigger)

CooldownMs == 3000

ConfidenceTrigger == R(8, 10)    \* confidence > 0.8

\* !value for a timestamp field: undefined and 0 are falsy
Falsy(value) == value = Absent \/ value = 0

\* the object literal assigned to this.gestureState on a two-hand frame
NewGestureState(result, now) ==
    [detected |-> result.detected, confidence |-> result.confidence,
     metrics |-> result.metrics, lastUpdate |-> now, lastTrigger |-> Absent]

\* the object literal assigned to this.gestureState on any other frame
IdleGestureState(now) ==
    [detected |-> FALSE, confidence |-> RZero, metrics |-> NoMetrics,
     lastUpdate |-> now, lastTrigger |-> Absent]

\* this.gestureState.reason: "" stands for undefined, the value of a
\* property the object does not have
ReasonOf(gs) == IF "reason" \in DOMAIN gs THEN gs.reason ELSE ""

\* updateGestureStatus(): the text of the gesture status element ("Basic"
\* stands for the text with the confidence percentage)
GestureStatusText(hands, gs) ==
    IF Len(hands) = 2
    THEN IF gs.detected THEN "Basic"
         ELSE IF ReasonOf(gs) = "" THEN "Adjusting..." ELSE ReasonOf(gs)
    ELSE "None"

\* the cooldown test on the gesture state just assigned
CooldownElapsed(gs, now) ==
    Falsy(gs.lastTrigger) \/ now - gs.lastTrigger > CooldownMs

\* a variant of Qualifies that admits confidence 0.8 itself
QualifiesAtLeast(result) ==
    result.detected /\ RLe(ConfidenceTrigger, result.confidence)

\* gestureResult.detected && gestureResult.confidence > 0.8
Qualifies(result) == result.detected /\ RLt(ConfidenceTrigger, result.confidence)

\* what processGestures leaves behind on a two-hand frame classified as d
TwoHandOutcome(d, prev, gs, now) ==
    IF d.threw
    THEN [threw |-> TRUE, calls |-> <<>>, fire |-> FALSE,
          gestureState |-> gs, previousHands |-> prev]
    ELSE LET g == NewGestureState(d.result, now)
             fire == Qualifies(d.result) /\ CooldownElapsed(g, now)
         IN  [threw |-> FALSE,
              calls |-> <<[n |-> 2, result |-> d.result]>>,
              fire |-> fire,
              gestureState |-> IF fire THEN [g EXCEPT !.lastTrigger = now] ELSE g,
              previousHands |-> d.previousHands]

\* processGestures() at time now: what it leaves behind.
\*   threw, calls : the classification made, if any
\*   fire         : triggerTigerConstellation() was called
processGestures(hands, prev, gs, now) ==
    IF Len(hands) = 2
    THEN CHOOSE out \in {TwoHandOutcome(d, prev, gs, now) :
                           d \in {detectBasicGesture(hands, prev)}} : TRUE
    ELSE [threw |-> FALSE, calls |-> <<>>, fire |-> FALSE,
          gestureState |-> IdleGestureState(now), previousHands |-> prev]

-----------------------------------------------------------------------------
(* Particle lifecycle engine                                                *)

NumAnchors == 2         \* anchors of the template that are modelled

\* generateTigerSilhouette(): the anchors, in hundredths
tigerTemplate ==
    SubSeq(<< <<50, 30>>, <<52, 28>>, <<55, 27>>, <<58, 29>>, <<60, 32>>,
              <<61, 35>>, <<60, 38>>, <<58, 41>>, <<55, 43>>, <<52, 44>> >>,
           1, NumAnchors)

\* 5000 + Math.random() * 3000: the lifetimes the model draws
MaxAges == {5000, 7500}

\* canvas.width and canvas.height after resizeCanvas(); the tracker's canvas
\* and the particle canvas are taken to have the same size
CanvasWidth == 640
CanvasHeight == 480

\* the random draws of one particle that the model distinguishes: a particle
\* of the shorter lifetime is small, orange and turns left, one of the longer
\* lifetime is large, dark and turns right.  size is in pixels, rotationSpeed
\* and rotation in thousandths of a radian.  The random offset of the start
\* position and the start velocity are not modelled.
Look(maxAge) ==
    IF maxAge < 6000
    THEN [size |-> 3, color |-> "#FF6B35", rotationSpeed |-> -40, rotation |-> 0]
    ELSE [size |-> 6, color |-> "#2C1810", rotationSpeed |-> 25, rotation |-> 3000]

\* a || b on numbers: 0 and NaN are falsy
NaN == <<0, 0>>
OrElse(a, b) == IF a = RZero \/ a = NaN THEN b ELSE a

\* scale * Math.min(canvas.width, canvas.height) * 0.3
ParticleScale(scale) ==
    RMul(scale, R(Min(CanvasWidth, CanvasHeight) * 3, 10))

\* screenCenter + (point - 0.5) * particleScale for one coordinate of an
\* anchor given in hundredths
ScreenCoord(screenCenter, coord, particleScale) ==
    R(screenCenter[1] * 100 * particleScale[2]
          + (coord - 50) * particleScale[1] * screenCenter[2],
      screenCenter[2] * 100 * particleScale[2])

\* screenX and screenY of the anchors i.. of the template
RECURSIVE ScreenPoints(_, _, _, _)
ScreenPoints(i, screenCenterX, screenCenterY, particleScale) ==
    IF i > Len(tigerTemplate) THEN <<>>
    ELSE <<[x |-> ScreenCoord(screenCenterX, tigerTemplate[i][1], particleScale),
            y |-> ScreenCoord(screenCenterY, tigerTemplate[i][2], particleScale)]>>
         \o ScreenPoints(i + 1, screenCenterX, screenCenterY, particleScale)

\* the template converted to screen coordinates
ScreenTemplate(centerX, centerY, scale) ==
    CHOOSE t \in {ScreenPoints(1, sx, sy, ps) :
                    sx \in {OrElse(centerX, R(CanvasWidth, 2))},
                    sy \in {OrElse(centerY, R(CanvasHeight, 2))},
                    ps \in {ParticleScale(scale)}} : TRUE

\* a variant of SpawnedParticles whose particles start 100 ms of age apart
SpawnedParticlesStaggered(ages, screen, now) ==
    [i \in 1..Len(tigerTemplate) |->
        [id |-> i - 1, alpha |-> RZero, age |-> 100 * (i - 1),
         maxAge |-> ages[i], phase |-> "spawning",
         targetX |-> screen[i].x, targetY |-> screen[i].y,
         size |-> Look(ages[i]).size, color |-> Look(ages[i]).color,
         rotationSpeed |-> Look(ages[i]).rotationSpeed,
         rotation |-> Look(ages[i]).rotation,
         born |-> now]]

\* a variant of SpawnedParticles whose particles start fully visible
SpawnedParticlesOpaque(ages, screen, now) ==
    [i \in 1..Len(tigerTemplate) |->
        [id |-> i - 1, alpha |-> ROne, age |-> 0, maxAge |-> ages[i],
         phase |-> "spawning",
         targetX |-> screen[i].x, targetY |-> screen[i].y,
         size |-> Look(ages[i]).size, color |-> Look(ages[i]).color,
         rotationSpeed |-> Look(ages[i]).rotationSpeed,
         rotation |-> Look(ages[i]).rotation,
         born |-> now]]

\* the particles spawnTigerConstellation creates from the anchors at the
\* screen positions screen, ages[i] the lifetime drawn for anchor i
\* (born is history: the clock at the spawn)
SpawnedParticles(ages, screen, now) ==
    [i \in 1..Len(tigerTemplate) |->
        [id |-> i - 1, alpha |-> RZero, age |-> 0, maxAge |-> ages[i],
         phase |-> "spawning",
         targetX |-> screen[i].x, targetY |-> screen[i].y,
         size |-> Look(ages[i]).size, color |-> Look(ages[i]).color,
         rotationSpeed |-> Look(ages[i]).rotationSpeed,
         rotation |-> Look(ages[i]).rotation,
         born |-> now]]

\* the lifetimes one spawn may draw for its particles
Lifetimes == [1..NumAnchors -> MaxAges]

\* a variant of PhaseOf that keeps a particle of age 500 in spawning
PhaseOfLate(age, maxAge) ==
    IF age <= 500 THEN "spawning"
    ELSE IF age < maxAge - 1000 THEN "floating"
    ELSE "dying"

\* a variant of PhaseOf with the last two branches exchanged
PhaseOfExchanged(age, maxAge) ==
    IF age < 500 THEN "spawning"
    ELSE IF age < maxAge - 1000 THEN "dying"
    ELSE "floating"

PhaseOf(age, maxAge) ==
    IF age < 500 THEN "spawning"
    ELSE IF age < maxAge - 1000 THEN "floating"
    ELSE "dying"

\* a variant of AlphaOf that fades out over the last 2000 ms
AlphaOfLongFade(phase, age, maxAge) ==
    IF phase = "spawning" THEN RMin(ROne, R(age, 500))
    ELSE IF phase = "floating" THEN ROne
    ELSE RMax(RZero, RSub(ROne, R(age - (maxAge - 1000), 2000)))

\* a variant of AlphaOf that fades in over 1000 ms
AlphaOfSlowFade(phase, age, maxAge) ==
    IF phase = "spawning" THEN RMin(ROne, R(age, 1000))
    ELSE IF phase = "floating" THEN ROne
    ELSE RMax(RZero, RSub(ROne, R(age - (maxAge - 1000), 1000)))

AlphaOf(phase, age, maxAge) ==
    IF phase = "spawning" THEN RMin(ROne, R(age, 500))
    ELSE IF phase = "floating" THEN ROne
    ELSE RMax(RZero, RSub(ROne, R(age - (maxAge - 1000), 1000)))

\* a variant of AgedParticle that does not add the elapsed time to the age
AgedParticleFrozen(p, deltaTime) ==
    [p EXCEPT !.phase = PhaseOf(p.age, p.maxAge),
              !.alpha = AlphaOf(PhaseOf(p.age, p.maxAge), p.age, p.maxAge),
              !.rotation = @ + p.rotationSpeed]

\* a variant of AgedParticle in which a particle shrinks while it is dying
AgedParticleShrinks(p, deltaTime) ==
    LET age   == p.age + deltaTime
        phase == PhaseOf(age, p.maxAge)
    IN  [p EXCEPT !.age = age, !.phase = phase,
                  !.alpha = AlphaOf(phase, age, p.maxAge),
                  !.rotation = @ + p.rotationSpeed,
                  !.size = IF phase = "dying" THEN @ - 1 ELSE @]

\* one particle after the body of the filter callback
AgedParticle(p, deltaTime) ==
    LET age   == p.age + deltaTime
        phase == PhaseOf(age, p.maxAge)
    IN  [p EXCEPT !.age = age, !.phase = phase,
                  !.alpha = AlphaOf(phase, age, p.maxAge),
                  !.rotation = @ + p.rotationSpeed]

\* a variant of FilterAlive that keeps a particle whose age equals maxAge
RECURSIVE FilterAliveInclusive(_)
FilterAliveInclusive(ps) ==
    IF ps = <<>> THEN <<>>
    ELSE IF Head(ps).age <= Head(ps).maxAge
         THEN <<Head(ps)>> \o FilterAliveInclusive(Tail(ps))
         ELSE FilterAliveInclusive(Tail(ps))

RECURSIVE FilterAlive(_)
FilterAlive(ps) ==
    IF ps = <<>> THEN <<>>
    ELSE IF Head(ps).age < Head(ps).maxAge
         THEN <<Head(ps)>> \o FilterAlive(Tail(ps))
         ELSE FilterAlive(Tail(ps))

\* a variant of updateParticles that removes nothing
updateParticlesKeepsAll(ps, deltaTime) ==
    [i \in 1..Len(ps) |-> AgedParticle(ps[i], deltaTime)]

\* updateParticles(deltaTime)
updateParticles(ps, deltaTime) ==
    FilterAlive([i \in 1..Len(ps) |-> AgedParticle(ps[i], deltaTime)])

\* the engine's fields as one record
Engine ==
    [particles |-> particles, isActive |-> isActive, animationId |-> animationId,
     lastTime |-> lastTime, scheduled |-> scheduled]

SetEngine(e) ==
    /\ particles' = e.particles
    /\ isActive' = e.isActive
    /\ animationId' = e.animationId
    /\ lastTime' = e.lastTime
    /\ scheduled' = e.scheduled

\* a variant of startAnimation without the test for a running animation
startAnimationUnguarded(eng, now) ==
    [eng EXCEPT !.lastTime = now, !.animationId = 1, !.scheduled = @ + 1]

\* startAnimation() at performance.now() = now
startAnimation(eng, now) ==
    IF eng.animationId # 0 THEN eng
    ELSE [eng EXCEPT !.lastTime = now, !.animationId = 1, !.scheduled = @ + 1]

\* a variant of spawnTigerConstellation that keeps the particles of the
\* previous constellation
spawnKeepsPrevious(eng, centerX, centerY, scale, now) ==
    {startAnimation([eng EXCEPT !.particles =
                                    @ \o SpawnedParticles(ages, screen, now),
                                !.isActive = TRUE], now) :
        ages \in Lifetimes, screen \in {ScreenTemplate(centerX, centerY, scale)}}

\* spawnTigerConstellation(centerX, centerY, scale): the engine it leaves,
\* one for each outcome of the random draws
spawnTigerConstellation(eng, centerX, centerY, scale, now) ==
    {startAnimation([eng EXCEPT !.particles = SpawnedParticles(ages, screen, now),
                                !.isActive = TRUE], now) :
        ages \in Lifetimes, screen \in {ScreenTemplate(centerX, centerY, scale)}}

\* (leftCenter + rightCenter) / 2 * extent for one coordinate of the two hand
\* centres; a hand without landmarks has the centre 0/0
Between(left, leftD, right, rightD, extent) ==
    IF leftD = 0 \/ rightD = 0 THEN NaN
    ELSE R((left * rightD + right * leftD) * extent, 2 * 100 * leftD * rightD)

\* triggerTigerConstellation(): the spawn position is the middle of the
\* canvas or, with two hands, the point between the hand centres
SpawnCenter(hands) ==
    IF Len(hands) = 2
    THEN CHOOSE c \in {[x |-> Between(leftCenter.x, leftCenter.d, rightCenter.x,
                                      rightCenter.d, CanvasWidth),
                        y |-> Between(leftCenter.y, leftCenter.d, rightCenter.y,
                                      rightCenter.d, CanvasHeight)] :
                          leftCenter \in {calculateHandCenter(hands[1])},
                          rightCenter \in {calculateHandCenter(hands[2])}} : TRUE
    ELSE [x |-> R(CanvasWidth, 2), y |-> R(CanvasHeight, 2)]

triggerTigerConstellation(eng, hands, now) ==
    UNION {spawnTigerConstellation(eng, c.x, c.y, ROne, now) :
              c \in {SpawnCenter(hands)}}

\* a variant of animate that requests the next callback whatever is left
animateKeepsRunning(eng, currentTime) ==
    IF ~eng.isActive THEN [eng EXCEPT !.scheduled = @ - 1]
    ELSE [particles |-> updateParticles(eng.particles, currentTime - eng.lastTime),
          isActive |-> TRUE,
          animationId |-> 1,
          lastTime |-> currentTime,
          scheduled |-> eng.scheduled]

\* the animate callback, called with currentTime
animate(eng, currentTime) ==
    IF ~eng.isActive THEN [eng EXCEPT !.scheduled = @ - 1]
    ELSE LET ps == updateParticles(eng.particles, currentTime - eng.lastTime)
         IN  [particles |-> ps,
              isActive |-> ps # <<>>,
              animationId |-> IF ps # <<>> THEN 1 ELSE 0,
              lastTime |-> currentTime,
              scheduled |-> IF ps # <<>> THEN eng.scheduled ELSE eng.scheduled - 1]

\* a variant of stopAnimation that leaves the pending request in place
stopAnimationNoCancel(eng) ==
    [eng EXCEPT !.isActive = FALSE, !.particles = <<>>]

\* a variant of stopAnimation that leaves the active flag set
stopAnimationKeepsActive(eng) ==
    [eng EXCEPT !.animationId = 0,
                !.scheduled = IF eng.animationId # 0 THEN @ - 1 ELSE @,
                !.particles = <<>>]

\* a variant of stopAnimation that also resets lastTime
stopAnimationResetsTime(eng) ==
    [eng EXCEPT !.isActive = FALSE,
                !.animationId = 0,
                !.scheduled = IF eng.animationId # 0 THEN @ - 1 ELSE @,
                !.particles = <<>>,
                !.lastTime = 0]

\* stopAnimation()
stopAnimation(eng) ==
    [eng EXCEPT !.isActive = FALSE,
                !.animationId = 0,
                !.scheduled = IF eng.animationId # 0 THEN @ - 1 ELSE @,
                !.particles = <<>>]

-----------------------------------------------------------------------------
(* State machine                                                            *)

NoEvent ==
    [kind |-> "init", spawned |-> FALSE, threw |-> FALSE, calls |-> <<>>,
     prevBefore |-> Undefined, handsBefore |-> 0, gap |-> -1,
     liveBefore |-> 0, pendingBefore |-> 0]

Init ==
    /\ clock = 1000
    /\ currentHands = <<>>
    /\ previousHands = Undefined
    /\ gestureState = [detected |-> FALSE, confidence |-> RZero,
                       metrics |-> NoMetrics, lastUpdate |-> 1000,
                       lastTrigger |-> Absent]
    /\ particles = <<>>
    /\ isActive = FALSE
    /\ animationId = 0
    /\ lastTime = 0
    /\ scheduled = 0
    /\ lastEvent = NoEvent
    /\ frameSpawnAt = -1
    /\ frameSpawns = 0

\* drawLandmarks(results) throws on a hand that lacks one of the landmarks
\* 0..20 the skeleton connections name
DrawThrows(hands) == \E i \in 1..Len(hands) : Len(hands[i]) < NumLandmarks

FrameEvent(r, prev, handsBefore, gap) ==
    [kind |-> "frame", spawned |-> r.fire, threw |-> r.threw, calls |-> r.calls,
     prevBefore |-> prev, handsBefore |-> handsBefore, gap |-> gap,
     liveBefore |-> Len(particles), pendingBefore |-> scheduled]

\* a variant of AbsorbFailure that also stops the particle animation
FailureStopsAnimation ==
    /\ \E e \in {stopAnimation(Engine)} : SetEngine(e)
    /\ UNCHANGED <<previousHands, gestureState, frameSpawnAt, frameSpawns>>
    /\ lastEvent' = [kind |-> "frame", spawned |-> FALSE, threw |-> TRUE,
                     calls |-> <<>>, prevBefore |-> previousHands,
                     handsBefore |-> Len(currentHands), gap |-> -1,
                     liveBefore |-> Len(particles), pendingBefore |-> scheduled]

\* the catch block of onResults after drawLandmarks threw: the rest of the
\* frame is skipped
AbsorbFailure ==
    /\ UNCHANGED <<previousHands, gestureState, particles, isActive,
                   animationId, lastTime, scheduled, frameSpawnAt, frameSpawns>>
    /\ lastEvent' = [kind |-> "frame", spawned |-> FALSE, threw |-> TRUE,
                     calls |-> <<>>, prevBefore |-> previousHands,
                     handsBefore |-> Len(currentHands), gap |-> -1,
                     liveBefore |-> Len(particles), pendingBefore |-> scheduled]

\* a variant of NoSpawn in which a frame without the gesture stops the
\* particle animation
NoSpawnStops ==
    /\ \E e \in {stopAnimation(Engine)} : SetEngine(e)
    /\ UNCHANGED <<frameSpawnAt, frameSpawns>>

\* processGestures returns without a call of triggerTigerConstellation: the
\* frame does not reach the particle engine
NoSpawn ==
    UNCHANGED <<particles, isActive, animationId, lastTime, scheduled,
                frameSpawnAt, frameSpawns>>

\* onResults(results): a frame with these hands is delivered dt ms after the
\* previous event
OnResults(hands, dt) ==
    /\ clock' = clock + dt
    /\ currentHands' = hands
    /\ IF DrawThrows(hands)
       THEN AbsorbFailure
       ELSE \E r \in {processGestures(hands, previousHands, gestureState,
                                      clock + dt)} :
                /\ previousHands' = r.previousHands
                /\ gestureState' = r.gestureState
                /\ IF r.fire
                   THEN /\ \E e \in triggerTigerConstellation(Engine, hands,
                                                              clock + dt) :
                                SetEngine(e)
                        /\ frameSpawnAt' = clock + dt
                        /\ frameSpawns' = frameSpawns + 1
                        /\ lastEvent' = FrameEvent(r, previousHands, Len(currentHands),
                                           IF frameSpawnAt # -1
                                           THEN clock + dt - frameSpawnAt ELSE -1)
                   ELSE /\ NoSpawn
                        /\ lastEvent' = FrameEvent(r, previousHands, Len(currentHands),
                                                -1)

\* the requestAnimationFrame callback runs dt ms after the previous event
Tick(dt) ==
    /\ scheduled > 0
    /\ clock' = clock + dt
    /\ \E e \in {animate(Engine, clock + dt)} : SetEngine(e)
    /\ lastEvent' = [NoEvent EXCEPT !.kind = "tick", !.prevBefore = previousHands,
                                    !.handsBefore = Len(currentHands),
                                    !.liveBefore = Len(particles),
                                    !.pendingBefore = scheduled]
    /\ UNCHANGED <<currentHands, previousHands, gestureState, frameSpawnAt,
                   frameSpawns>>

\* the calls of runTigerDetectionTests that returned: t0 on no hands, t1 on
\* the first hand, t2 on the two hands
TestCalls(hands, t0, t1, t2) ==
    <<[n |-> 0, result |-> t0.result]>>
    \o (IF Len(hands) >= 1 THEN <<[n |-> 1, result |-> t1.result]>> ELSE <<>>)
    \o (IF Len(hands) = 2 /\ ~t2.threw THEN <<[n |-> 2, result |-> t2.result]>>
        ELSE <<>>)

\* key T: runTigerDetectionTests()
RunTests ==
    /\ \E t0 \in {detectBasicGesture(<<>>, previousHands)} :
       \E t1 \in {IF Len(currentHands) >= 1
                   THEN detectBasicGesture(<<currentHands[1]>>, t0.previousHands)
                   ELSE t0} :
       \E t2 \in {IF Len(currentHands) = 2
                   THEN detectBasicGesture(currentHands, t1.previousHands)
                   ELSE t1} :
        /\ previousHands' = t2.previousHands
        /\ lastEvent' = [kind |-> "tests", spawned |-> FALSE, threw |-> t2.threw,
                         calls |-> TestCalls(currentHands, t0, t1, t2),
                         prevBefore |-> previousHands,
                         handsBefore |-> Len(currentHands), gap |-> -1,
                         liveBefore |-> Len(particles), pendingBefore |-> scheduled]
    /\ UNCHANGED <<clock, currentHands, gestureState, particles, isActive,
                   animationId, lastTime, scheduled, frameSpawnAt, frameSpawns>>

\* key C: calibrateTigerDetection()
Calibrate ==
    /\ IF Len(currentHands) # 2
       THEN /\ previousHands' = previousHands
            /\ lastEvent' = [NoEvent EXCEPT !.kind = "calibrate",
                                            !.prevBefore = previousHands,
                                            !.handsBefore = Len(currentHands),
                                            !.liveBefore = Len(particles),
                                            !.pendingBefore = scheduled]
       ELSE \E d \in {detectBasicGesture(currentHands, previousHands)} :
            /\ previousHands' = d.previousHands
            /\ lastEvent' = [kind |-> "calibrate", spawned |-> FALSE,
                             threw |-> d.threw,
                             calls |-> IF d.threw THEN <<>>
                                       ELSE <<[n |-> 2, result |-> d.result]>>,
                             prevBefore |-> previousHands,
                             handsBefore |-> Len(currentHands), gap |-> -1,
                             liveBefore |-> Len(particles), pendingBefore |-> scheduled]
    /\ UNCHANGED <<clock, currentHands, gestureState, particles, isActive,
                   animationId, lastTime, scheduled, frameSpawnAt, frameSpawns>>

\* key P: triggerTigerConstellation() by hand
ManualTrigger ==
    /\ \E e \in triggerTigerConstellation(Engine, currentHands, clock) :
          SetEngine(e)
    /\ lastEvent' = [NoEvent EXCEPT !.kind = "manual", !.spawned = TRUE,
                                    !.prevBefore = previousHands,
                                    !.handsBefore = Len(currentHands),
                                    !.liveBefore = Len(particles),
                                    !.pendingBefore = scheduled]
    /\ UNCHANGED <<clock, currentHands, previousHands, gestureState, frameSpawnAt,
                   frameSpawns>>

\* key S: particleSystem.stopAnimation()
Stop ==
    /\ \E e \in {stopAnimation(Engine)} : SetEngine(e)
    /\ lastEvent' = [NoEvent EXCEPT !.kind = "stop", !.prevBefore = previousHands,
                                    !.handsBefore = Len(currentHands),
                                    !.liveBefore = Len(particles),
                                    !.pendingBefore = scheduled]
    /\ UNCHANGED <<clock, currentHands, previousHands, gestureState, frameSpawnAt,
                   frameSpawns>>

Next ==
    \/ \E hands \in Frames, dt \in FrameDeltas :
          clock + dt <= MaxClock /\ OnResults(hands, dt)
    \/ \E dt \in TickDeltas : clock + dt <= MaxClock /\ Tick(dt)
    \/ RunTests
    \/ Calibrate
    \/ ManualTrigger
    \/ Stop

Spec == Init /\ [][Next]_vars

-----------------------------------------------------------------------------
(* SpecFrames: frames only, drawn from PairFrames, FrameDepth frames,       *)
(* one frame period apart.                                                  *)

FramePeriod == 33       \* ms between two frames at 30 frames per second

FrameDepth == 2

NextFrames ==
    \E hands \in PairFrames :
        clock + FramePeriod <= 1000 + FrameDepth * FramePeriod
        /\ OnResults(hands, FramePeriod)

SpecFrames == Init /\ [][NextFrames]_vars

-----------------------------------------------------------------------------
(* SpecStream: the gesture is held; one frame every FramePeriod ms.  The    *)
(* first frame has no predecessor (stability 0.5); the StreamFrames frames  *)
(* after it are all detected with confidence above 0.8.                     *)

StreamFrames == 300

NextStream ==
    clock + FramePeriod <= 1000 + (StreamFrames + 1) * FramePeriod
    /\ OnResults(<<H40, H43>>, FramePeriod)

SpecStream == Init /\ [][NextStream]_vars

-----------------------------------------------------------------------------
(* SpecMalformed: frames that may hold a hand without 21 landmarks, and the *)
(* keys T and C.                                                            *)

NextMalformed ==
    \/ \E hands \in MalformedFrames, dt \in FrameDeltas :
          clock + dt <= MaxClock /\ OnResults(hands, dt)
    \/ RunTests
    \/ Calibrate

SpecMalformed == Init /\ [][NextMalformed]_vars

-----------------------------------------------------------------------------
(* SpecParticles: the particle engine alone, driven by key P (spawn), key S *)
(* (stop) and the animation callback, long enough for every particle to go  *)
(* through its whole life.                                                  *)

\* ms between two animation callbacks; the long one overshoots maxAge
ParticleDeltas == {250, 2000}

ParticleSteps == 34     \* the clock of SpecParticles runs for ParticleSteps * 250 ms

NextParticles ==
    \/ \E dt \in ParticleDeltas :
          clock + dt <= 1000 + ParticleSteps * 250 /\ Tick(dt)
    \/ ManualTrigger
    \/ Stop

SpecParticles == Init /\ [][NextParticles]_vars

-----------------------------------------------------------------------------
(* SpecDrivers: both drivers together over the whole life of a             *)
(* constellation: frames that fire a spawn or not, animation callbacks,    *)
(* and the keys P and S.                                                   *)

\* a frame with the gesture held and a frame with one hand
DriverFrames == { <<H43, H46>>, <<H40>> }

DriverPeriod == 1500    \* ms between two events of SpecDrivers that take time

DriverSteps == 6        \* the clock of SpecDrivers runs for DriverSteps * DriverPeriod ms

NextDrivers ==
    \/ \E hands \in DriverFrames :
          clock + DriverPeriod <= 1000 + DriverSteps * DriverPeriod
          /\ OnResults(hands, DriverPeriod)
    \/ clock + DriverPeriod <= 1000 + DriverSteps * DriverPeriod
       /\ Tick(DriverPeriod)
    \/ ManualTrigger
    \/ Stop

SpecDrivers == Init /\ [][NextDrivers]_vars

-----------------------------------------------------------------------------
(* SpecExpiry: spawns by key P during the first RespawnSteps * 250 ms, and  *)
(* animation callbacks.  The browser runs a requested callback in the next  *)
(* display refresh, so a pending callback is eventually run (weak fairness  *)
(* of the tick).                                                            *)

RespawnSteps == 8       \* spawns happen in the first RespawnSteps * 250 ms

ExpirySteps == 46       \* the clock of SpecExpiry runs for ExpirySteps * 250 ms

ExpiryTick ==
    \E dt \in ParticleDeltas :
        clock + dt <= 1000 + ExpirySteps * 250 /\ Tick(dt)

NextExpiry ==
    \/ ExpiryTick
    \/ clock <= 1000 + RespawnSteps * 250 /\ ManualTrigger

SpecExpiry == Init /\ [][NextExpiry]_vars /\ WF_vars(ExpiryTick)

-----------------------------------------------------------------------------
(* SpecCenters: spawns at different positions: frames with the hands in    *)
(* the middle or at the left edge of the frame, key P, and animation       *)
(* callbacks.                                                              *)

CenterFrames == { <<H00, H00b>>, <<H43, H46>>, <<H40>> }

NextCenters ==
    \/ \E hands \in CenterFrames, dt \in FrameDeltas :
          clock + dt <= MaxClock /\ OnResults(hands, dt)
    \/ \E dt \in TickDeltas : clock + dt <= MaxClock /\ Tick(dt)
    \/ ManualTrigger

SpecCenters == Init /\ [][NextCenters]_vars

-----------------------------------------------------------------------------
(* SpecHeld: the gesture is held in front of the camera while the          *)
(* animation runs.  A frame arrives FramePeriod ms after the previous      *)
(* event, and at most one animation callback runs between two frames, so   *)
(* that frames are never more than SlowestFrameGap ms apart.               *)

SlowestFrameGap == 40   \* ms between two frames at 25 frames per second

HeldSteps == 12         \* the clock of SpecHeld runs for HeldSteps * SlowestFrameGap ms

NextHeld ==
    \/ clock + FramePeriod <= 1000 + HeldSteps * SlowestFrameGap
       /\ OnResults(<<H40, H43>>, FramePeriod)
    \/ lastEvent.kind = "frame"
       /\ clock + (SlowestFrameGap - FramePeriod)
              <= 1000 + HeldSteps * SlowestFrameGap
       /\ Tick(SlowestFrameGap - FramePeriod)

SpecHeld == Init /\ [][NextHeld]_vars

-----------------------------------------------------------------------------
(* Properties                                                               *)

\* the results of the two-hand classifications the latest event made
Classified ==
    {lastEvent.calls[i].result :
        i \in {j \in 1..Len(lastEvent.calls) : lastEvent.calls[j].n = 2}}

\* the latest event is a frame whose processing fired a spawn
FrameFired == lastEvent.kind = "frame" /\ lastEvent.spawned

\* the movement of each hand between the stored hands and the latest input
MovementA == calculateHandMovement(currentHands[1], lastEvent.prevBefore[1])
MovementB == calculateHandMovement(currentHands[2], lastEvent.prevBefore[2])

\* C1: any two spawns fired by frame processing are more than 3000 ms apart
\* (gap is the time since the previous spawn fired by a frame).
C1_SpawnsCooldownApart ==
    (FrameFired /\ lastEvent.gap # -1) => lastEvent.gap > 3000

\* the StreamFrames frames of SpecStream have all been delivered
StreamOver == clock = 1000 + (StreamFrames + 1) * FramePeriod

\* C2: a gesture held for 10 seconds at 30 frames per second, every frame
\* detected with confidence above 0.8, fires exactly 3 spawns.
C2_ThreeSpawnsInTenSeconds == StreamOver => frameSpawns = 3

\* C3: a recorded last-trigger timestamp is changed only by a step that fires
\* a spawn from a frame; every other step, the per-frame replacement of the
\* gesture state included, leaves it as it was.
C3_LastTriggerKept ==
    [][(gestureState.lastTrigger # Absent
        /\ ~(lastEvent'.kind = "frame" /\ lastEvent'.spawned))
       => gestureState'.lastTrigger = gestureState.lastTrigger]_vars

\* C4: frame processing fires a spawn only on a frame that has exactly 2
\* hands and is classified detected with confidence strictly above 0.8.
C4_SpawnOnlyWhenQualified ==
    FrameFired =>
        /\ Len(currentHands) = 2
        /\ gestureState.detected
        /\ RLt(R(8, 10), gestureState.confidence)

C4_Witness ==
    /\ FrameFired
    /\ Len(currentHands) = 2
    /\ particles # <<>>
    /\ gestureState.lastTrigger = clock

\* C5: asked about a number of hands other than 2, the classification answers
\* detected = false with confidence 0, and the stored previous hands are left
\* as they were; a frame with such a number of hands does the same.
C5_WrongCountRejected ==
    /\ \A i \in 1..Len(lastEvent.calls) :
          lastEvent.calls[i].n # 2 =>
              /\ ~lastEvent.calls[i].result.detected
              /\ lastEvent.calls[i].result.confidence = RZero
    /\ (lastEvent.kind \in {"tests", "frame"} /\ ~lastEvent.threw
        /\ Len(currentHands) # 2) =>
           /\ previousHands = lastEvent.prevBefore
           /\ (lastEvent.kind = "frame" =>
                 ~gestureState.detected /\ gestureState.confidence = RZero)

C5_Witness ==
    /\ lastEvent.kind = "tests"
    /\ Len(currentHands) = 1
    /\ Len(lastEvent.calls) = 2
    /\ previousHands # Undefined
    /\ previousHands = lastEvent.prevBefore

\* C6: the first two-hand frame after a frame without exactly 2 hands is
\* given the neutral stability 0.5: it is not compared with stored hands.
C6_NeutralAfterGap ==
    (lastEvent.kind = "frame" /\ lastEvent.handsBefore # 2) =>
        \A r \in Classified : r.metrics[1].stability = R(1, 2)

\* C7: the first stability computation, made with no previous hands stored,
\* returns exactly 0.5 and stores the hands it was given.
C7_FirstStabilityNeutral ==
    \A r \in Classified :
        lastEvent.prevBefore = Undefined =>
            /\ r.metrics[1].stability = R(1, 2)
            /\ previousHands = currentHands

C7_Witness ==
    /\ Classified # {}
    /\ lastEvent.prevBefore = Undefined
    /\ previousHands = currentHands
    /\ \A r \in Classified : r.metrics[1].stability = R(1, 2)

\* C8: given the hands that are already stored, the stability computation
\* returns 1.0 and the stored hands stay the same.
C8_IdenticalFramesStable ==
    \A r \in Classified :
        lastEvent.prevBefore = currentHands =>
            /\ r.metrics[1].stability = ROne
            /\ previousHands = lastEvent.prevBefore

C8_Witness ==
    /\ Classified # {}
    /\ lastEvent.prevBefore = currentHands
    /\ \A r \in Classified : r.metrics[1].stability = ROne

\* the reference of the stability tracker: clamp(1 - avgMovement * 10, 0, 1)
\* for each hand on its own, and the mean of the two
PerHandStillness(movement) ==
    RMin(ROne, RMax(RZero, RSub(ROne, RMul(movement, R(10, 1)))))
ReferenceStability(movementA, movementB) ==
    RDiv(RAdd(PerHandStillness(movementA), PerHandStillness(movementB)), R(2, 1))

\* C9 as stated: the stability of the classifier equals the mean of the two
\* per-hand values for all inputs.
C9_EqualsPerHandMean ==
    \A r \in Classified :
        lastEvent.prevBefore # Undefined =>
            r.metrics[1].stability = ReferenceStability(MovementA, MovementB)

\* C9, amended: the stability of the classifier equals the mean of the two
\* per-hand values when both movements are at most 0.1 or both are at least
\* 0.1; when one is below 0.1 and the other above, it is strictly smaller.
C9_EqualsPerHandMeanUnlessOneClamped ==
    \A r \in Classified :
        lastEvent.prevBefore # Undefined =>
            IF \/ RLe(MovementA, R(1, 10)) /\ RLe(MovementB, R(1, 10))
               \/ RLe(R(1, 10), MovementA) /\ RLe(R(1, 10), MovementB)
            THEN r.metrics[1].stability = ReferenceStability(MovementA, MovementB)
            ELSE RLt(r.metrics[1].stability,
                     ReferenceStability(MovementA, MovementB))

C9_Witness ==
    /\ Classified # {}
    /\ lastEvent.prevBefore # Undefined
    /\ MovementA = RZero
    /\ RLt(R(1, 10), MovementB)
    /\ \A r \in Classified :
          RLt(r.metrics[1].stability, ReferenceStability(MovementA, MovementB))

\* C10: detected holds exactly when wristDistance < 0.25, centerDistance <
\* 0.20 and stability > 0.7, all three strict: with a value on its threshold
\* the gesture is not detected.
C10_DetectedIffInsideThresholds ==
    \A r \in Classified :
        r.detected <=>
            /\ RLt(r.metrics[1].wristDistance, R(25, 100))
            /\ RLt(r.metrics[1].centerDistance, R(20, 100))
            /\ RLt(R(7, 10), r.metrics[1].stability)

\* the wrists exactly 0.25 apart, the centres closer than 0.20, hands still
C10_Witness ==
    \E r \in Classified :
        /\ r.metrics[1].wristDistance = R(25, 100)
        /\ RLt(r.metrics[1].centerDistance, R(20, 100))
        /\ r.metrics[1].stability = ROne
        /\ ~r.detected

\* every result the classification returned in the latest event
Returned == {lastEvent.calls[i].result : i \in 1..Len(lastEvent.calls)}

\* C11: the confidence of every classification result lies in [0, 1]; when
\* detected it is max(0, 1 - wristDistance/0.25) * 0.7 + stability * 0.3, and
\* when not detected it is 0.
C11_ConfidenceFormula ==
    \A r \in Returned :
        /\ RLe(RZero, r.confidence) /\ RLe(r.confidence, ROne)
        /\ ~r.detected => r.confidence = RZero
        /\ r.detected =>
              r.confidence =
                 RAdd(RMul(RMax(RZero,
                                RSub(ROne, RDiv(r.metrics[1].wristDistance,
                                                R(25, 100)))),
                           R(7, 10)),
                      RMul(r.metrics[1].stability, R(3, 10)))

\* a detected result whose confidence is strictly between 0.7 and 1
C11_Witness ==
    \E r \in Classified :
        /\ r.detected
        /\ r.metrics[1].wristDistance = R(5, 100)
        /\ r.metrics[1].stability = ROne
        /\ r.confidence = R(86, 100)

WristGrid == 40         \* wrist distances 0.00, 0.01, ... tried by C12

\* the confidence returned for wrist distance w/100 with the centre distance
\* and the stability of the result r
ConfidenceAt(w, r) ==
    GestureResult(R(w, 100), r.metrics[1].centerDistance,
                  r.metrics[1].stability).confidence

\* C12: with the stability and the centre distance of any classification
\* held fixed, the confidence does not increase when the wrist distance
\* grows, over the whole range and across the boundary at 0.25.
C12_ConfidenceMonotone ==
    \A r \in Classified :
        /\ \A w \in 0..(WristGrid - 1) : RLe(ConfidenceAt(w + 1, r), ConfidenceAt(w, r))
        /\ \A w \in 0..WristGrid :
              /\ RLe(r.metrics[1].wristDistance, R(w, 100))
                    => RLe(ConfidenceAt(w, r), r.confidence)
              /\ RLe(R(w, 100), r.metrics[1].wristDistance)
                    => RLe(r.confidence, ConfidenceAt(w, r))

\* a detected result: the confidence falls from 0.24 to 0.25 and is 0 beyond
C12_Witness ==
    \E r \in Classified :
        /\ r.detected
        /\ RLt(RZero, ConfidenceAt(24, r))
        /\ ConfidenceAt(25, r) = RZero
        /\ RLt(ConfidenceAt(1, r), ConfidenceAt(0, r))

\* C13 as stated: the second of two identical two-hand frames with wrist
\* distance 0.05 is detected with confidence at least 0.7, whatever the
\* distance of the hand centres.
C13_HeldGestureDetected ==
    \A r \in Classified :
        (lastEvent.kind = "frame" /\ lastEvent.prevBefore = currentHands
         /\ r.metrics[1].wristDistance = R(5, 100)) =>
            r.detected /\ RLe(R(7, 10), r.confidence)

\* C13, amended: the second of two identical two-hand frames with wrist
\* distance 0.05 is detected with confidence at least 0.7 when the hand
\* centres are less than 0.20 apart; otherwise it is not detected and its
\* confidence is 0.
C13_HeldGestureDetectedIfCentresClose ==
    \A r \in Classified :
        (lastEvent.kind = "frame" /\ lastEvent.prevBefore = currentHands
         /\ r.metrics[1].wristDistance = R(5, 100)) =>
            IF RLt(r.metrics[1].centerDistance, R(20, 100))
            THEN r.detected /\ RLe(R(7, 10), r.confidence)
            ELSE ~r.detected /\ r.confidence = RZero

\* wrists 0.05 apart, centres 0.25 apart, the frame repeated: not detected
C13_Witness ==
    \E r \in Classified :
        /\ lastEvent.kind = "frame"
        /\ lastEvent.prevBefore = currentHands
        /\ clock = 1000 + 2 * FramePeriod
        /\ r.metrics[1].wristDistance = R(5, 100)
        /\ r.metrics[1].centerDistance = R(25, 100)
        /\ ~r.detected

\* C14: between two frames, the keys T (self-test) and C (calibration)
\* leave the stored previous hands as they are, so the stability history
\* advances only with a delivered frame.
C14_HistoryAdvancesOncePerFrame ==
    [][lastEvent'.kind \in {"tests", "calibrate"}
       => previousHands' = previousHands]_vars

\* some hand of the latest frame does not have 21 landmarks
MalformedFrame ==
    \E i \in 1..Len(currentHands) : Len(currentHands[i]) # 21

\* C15: a frame with a hand whose landmark count is not 21 is not classified
\* and leaves the stored previous hands as they were.
C15_MalformedFrameRejected ==
    (lastEvent.kind = "frame" /\ MalformedFrame) =>
        /\ lastEvent.calls = <<>>
        /\ previousHands = lastEvent.prevBefore

\* C16: a frame whose processing fails leaves the particle set and the
\* pending animation callback as they were: the tick loop goes on.
C16_FailedFrameAbsorbed ==
    [][(lastEvent'.kind = "frame" /\ lastEvent'.threw /\ clock' # clock)
       => /\ particles' = particles
          /\ isActive' = isActive
          /\ animationId' = animationId
          /\ lastTime' = lastTime
          /\ scheduled' = scheduled]_vars

\* a frame failed while particles were alive and a callback was pending
C16_Witness ==
    /\ lastEvent.kind = "frame"
    /\ lastEvent.threw
    /\ particles # <<>>
    /\ isActive
    /\ scheduled > 0

\* the particles of the owned set
Owned == {particles[i] : i \in 1..Len(particles)}

\* this step is a run of the animation callback
TickStep == lastEvent'.kind = "tick" /\ clock' # clock

\* C17: every particle of the owned set, fresh or aged by ticks, has the
\* phase its age and maxAge determine: spawning below 500, floating from 500
\* to below maxAge - 1000, dying from maxAge - 1000 on.
C17_PhaseFromAge ==
    \A p \in Owned :
        p.phase = IF p.age < 500 THEN "spawning"
                  ELSE IF p.age < p.maxAge - 1000 THEN "floating"
                  ELSE "dying"

\* after a tick, one particle just turned floating and one just turned dying
C17_Witness ==
    /\ lastEvent.kind = "tick"
    /\ \E p \in Owned : p.age = p.maxAge - 1000 /\ p.phase = "dying"
    /\ \E p \in Owned : p.age >= 500 /\ p.phase = "floating"

PhaseRank(phase) ==
    IF phase = "spawning" THEN 1 ELSE IF phase = "floating" THEN 2 ELSE 3

\* C18: over a tick, every particle that stays in the set keeps or advances
\* its phase in the order spawning, floating, dying, and its age does not
\* decrease.
C18_PhaseNeverRegresses ==
    [][TickStep =>
          \A p \in Owned : \A i \in 1..Len(particles') :
              particles'[i].id = p.id =>
                  /\ PhaseRank(particles'[i].phase) >= PhaseRank(p.phase)
                  /\ particles'[i].age >= p.age]_vars

\* after a tick a particle is dying and another is still floating
C18_Witness ==
    /\ lastEvent.kind = "tick"
    /\ \E p \in Owned : p.phase = "dying"
    /\ \E p \in Owned : p.phase = "floating" /\ p.age > 4000

\* C19: a tick drops exactly the particles whose age reaches maxAge in that
\* tick and keeps all others, so after every tick every particle of the set
\* has age < maxAge.
C19_RemovedAtMaxAge ==
    [][(TickStep /\ isActive) =>
          /\ \A p \in Owned :
                (\E i \in 1..Len(particles') : particles'[i].id = p.id)
                   <=> p.age + (clock' - lastTime) < p.maxAge
          /\ \A i \in 1..Len(particles') :
                particles'[i].age < particles'[i].maxAge]_vars

\* a tick dropped the particle of lifetime 5000 and kept the one of 7500
C19_Witness ==
    /\ lastEvent.kind = "tick"
    /\ Len(particles) = 1
    /\ particles[1].maxAge = 7500
    /\ particles[1].age >= 5000

\* C20: the alpha of every particle of the set lies in [0, 1] and follows
\* its age: age/500 below 500, 1 from 500 to below maxAge - 1000, and
\* max(0, 1 - (age - (maxAge - 1000))/1000) from there on; the tick that
\* brings the particle to maxAge computes alpha 0.
C20_AlphaProfile ==
    \A p \in Owned :
        /\ RLe(RZero, p.alpha) /\ RLe(p.alpha, ROne)
        /\ p.alpha = IF p.age < 500 THEN R(p.age, 500)
                     ELSE IF p.age < p.maxAge - 1000 THEN ROne
                     ELSE RMax(RZero,
                               RSub(ROne, R(p.age - (p.maxAge - 1000), 1000)))
        /\ p.age = 0 => p.alpha = RZero
        /\ p.age \in {500, p.maxAge - 1000} => p.alpha = ROne
        /\ AgedParticle(p, p.maxAge - p.age).alpha = RZero

\* after a tick: a particle fading in at 0.5 or fading out at 0.25
C20_Witness ==
    /\ lastEvent.kind = "tick"
    /\ \E p \in Owned : p.age = p.maxAge - 250 /\ p.alpha = R(1, 4)
    /\ \E p \in Owned : p.phase = "floating" /\ p.alpha = ROne


\* the engine has no pending callback, is inactive and owns no particle
EngineIdle ==
    particles = <<>> /\ scheduled = 0 /\ ~isActive /\ animationId = 0

\* C21: right after a spawn the set holds exactly one particle per anchor of
\* the template, in the order of the anchors, each with alpha 0, age 0 and
\* phase spawning, whatever the set held before the spawn.
C21_SpawnReplacesSet ==
    lastEvent.spawned =>
        /\ Len(particles) = Len(tigerTemplate)
        /\ \A i \in 1..Len(particles) :
              /\ particles[i].id = i - 1
              /\ particles[i].alpha = RZero
              /\ particles[i].age = 0
              /\ particles[i].phase = "spawning"

\* a spawn made while aged particles of an earlier spawn were live
C21_Witness ==
    /\ lastEvent.kind = "manual"
    /\ lastEvent.liveBefore > 0
    /\ lastEvent.liveBefore < Len(tigerTemplate)
    /\ lastEvent.pendingBefore = 1
    /\ clock > 6000
    /\ Len(particles) = Len(tigerTemplate)

\* C22: the set never holds more particles than the template has anchors,
\* and no two particles of the set have the same id.
C22_OneConstellation ==
    /\ Len(particles) <= Len(tigerTemplate)
    /\ \A i, j \in 1..Len(particles) :
          particles[i].id = particles[j].id => i = j

\* a frame fired a spawn while part of an earlier constellation was live
C22_Witness ==
    /\ FrameFired
    /\ lastEvent.liveBefore > 0
    /\ lastEvent.liveBefore < Len(tigerTemplate)
    /\ Len(particles) = Len(tigerTemplate)


\* C23: between events a callback is pending exactly when the set is not
\* empty; every tick ran on a set that was not empty; and the tick that
\* empties the set leaves no callback pending and the engine inactive.
C23_TickPendingIffLive ==
    /\ scheduled > 0 <=> particles # <<>>
    /\ lastEvent.kind = "tick" => lastEvent.liveBefore > 0
    /\ (lastEvent.kind = "tick" /\ particles = <<>>) => EngineIdle

\* the tick that removed the last particles
C23_Witness ==
    /\ lastEvent.kind = "tick"
    /\ lastEvent.liveBefore > 0
    /\ lastEvent.pendingBefore = 1
    /\ EngineIdle

\* C24: never more than one callback is pending; after a spawn exactly one
\* is pending and the engine is active; a spawn on an idle engine starts
\* the loop at the time of the spawn.
C24_OnePendingTick ==
    /\ scheduled <= 1
    /\ lastEvent.spawned =>
          /\ scheduled = 1 /\ animationId # 0 /\ isActive
          /\ lastEvent.pendingBefore = 0 => lastTime = clock

\* a spawn made while the loop was running on a full constellation
C24_Witness ==
    /\ lastEvent.kind = "manual"
    /\ lastEvent.pendingBefore = 1
    /\ lastEvent.liveBefore = Len(tigerTemplate)
    /\ clock > 1000
    /\ scheduled = 1


\* C25: a stop leaves the set empty, no callback pending and the engine
\* idle, whatever the set held; and from an idle engine every step other
\* than a spawn leaves it idle and is not a tick.
C25_StopHalts ==
    [][/\ lastEvent'.kind = "stop" => EngineIdle'
       /\ (EngineIdle /\ ~lastEvent'.spawned) =>
              (EngineIdle' /\ lastEvent'.kind # "tick")]_vars

\* a stop that found part of an aged constellation live and a callback
\* pending
C25_Witness ==
    /\ lastEvent.kind = "stop"
    /\ lastEvent.liveBefore > 0
    /\ lastEvent.liveBefore < Len(tigerTemplate)
    /\ lastEvent.pendingBefore = 1
    /\ EngineIdle

\* C26: a stop on an idle engine changes no field of the engine; a stop that
\* follows a stop changes none either; and a spawn that follows a stop
\* leaves a full constellation, the engine active and one callback pending.
C26_StopIdempotent ==
    [][/\ (lastEvent'.kind = "stop" /\ (EngineIdle \/ lastEvent.kind = "stop")) =>
              UNCHANGED <<particles, isActive, animationId, lastTime, scheduled>>
       /\ (lastEvent.kind = "stop" /\ lastEvent'.spawned) =>
              /\ Len(particles') = Len(tigerTemplate)
              /\ isActive' /\ animationId' # 0 /\ scheduled' = 1
              /\ lastTime' = clock']_vars

\* a stop on an engine that had run before and was idle again
C26_Witness ==
    /\ lastEvent.kind = "stop"
    /\ lastEvent.liveBefore = 0
    /\ lastEvent.pendingBefore = 0
    /\ lastTime > 1000
    /\ EngineIdle


\* 5000 + Math.random() * 3000 stays below this
MaxLifetime == 8000

\* C27: once spawns have ceased and callbacks keep coming, every spawn is
\* followed by a state with the set empty, nothing pending and the engine
\* inactive; and no particle is live with MaxLifetime ms or more of tick
\* time accumulated in its age.
C27_EventuallyIdle ==
    /\ lastEvent.spawned ~> EngineIdle
    /\ [](\A p \in Owned : p.age < MaxLifetime)

\* the engine idle again after the last particle lived out its 7500 ms
C27_Witness ==
    /\ lastEvent.kind = "tick"
    /\ EngineIdle
    /\ lastEvent.liveBefore > 0
    /\ clock >= 1000 + RespawnSteps * 250 + 7500


\* C28: a tick leaves the gesture state (with its lastTrigger), the stored
\* previous hands and the current hands as they were; a frame that fires no
\* spawn leaves the particles, the pending callback, animationId, isActive
\* and lastTime as they were.
C28_DriversDecoupled ==
    [][/\ lastEvent'.kind = "tick" =>
              UNCHANGED <<gestureState, previousHands, currentHands>>
       /\ (lastEvent'.kind = "frame" /\ ~lastEvent'.spawned) =>
              UNCHANGED <<particles, scheduled, animationId, isActive,
                          lastTime>>]_vars

\* a frame with two hands that fired nothing arrived while part of an aged
\* constellation was live
C28_Witness ==
    /\ lastEvent.kind = "frame"
    /\ ~lastEvent.spawned
    /\ ~lastEvent.threw
    /\ Len(currentHands) = 2
    /\ Len(particles) > 0
    /\ Len(particles) < Len(tigerTemplate)
    /\ scheduled = 1


\* the fields of a particle that are written at spawn only
Fixed(p) ==
    [id |-> p.id, targetX |-> p.targetX, targetY |-> p.targetY,
     maxAge |-> p.maxAge, size |-> p.size, color |-> p.color,
     rotationSpeed |-> p.rotationSpeed]

\* C29: every particle a tick leaves in the set is a particle of the set
\* before the tick with the same id, target position, maxAge, size, color
\* and rotationSpeed; its age has grown by the elapsed time and its rotation
\* by rotationSpeed.
C29_FixedAtSpawn ==
    [][TickStep =>
          \A i \in 1..Len(particles') :
              \E p \in Owned :
                  /\ Fixed(particles'[i]) = Fixed(p)
                  /\ particles'[i].age = p.age + (clock' - lastTime)
                  /\ particles'[i].rotation = p.rotation + p.rotationSpeed]_vars

\* after some ticks a dying particle has turned and still has the size and
\* color drawn at its spawn
C29_Witness ==
    /\ lastEvent.kind = "tick"
    /\ \E p \in Owned :
          /\ p.phase = "dying"
          /\ p.rotation # Look(p.maxAge).rotation
          /\ p.size = Look(p.maxAge).size
          /\ p.color = Look(p.maxAge).color

\* C30: every particle a tick removes from the set has alpha 0 computed for
\* it by that tick.
C30_RemovedTransparent ==
    [][TickStep =>
          \A p \in Owned :
              (\A i \in 1..Len(particles') : particles'[i].id # p.id) =>
                  AgedParticle(p, clock' - lastTime).alpha = RZero]_vars

\* a tick removed one particle of a full constellation and kept the other
C30_Witness ==
    /\ lastEvent.kind = "tick"
    /\ lastEvent.liveBefore = Len(tigerTemplate)
    /\ Len(particles) < lastEvent.liveBefore
    /\ particles # <<>>


\* the center the latest spawn was called with
PassedCenter == SpawnCenter(currentHands)

\* C31: after a spawn every particle's target is its anchor, taken relative
\* to (0.5, 0.5), scaled by the particle scale and translated to the center
\* the spawn was called with, also when a coordinate of that center is 0.
C31_TargetAtCenter ==
    (lastEvent.spawned /\ PassedCenter.x # NaN /\ PassedCenter.y # NaN) =>
        \A i \in 1..Len(particles) :
            /\ particles[i].targetX =
                   ScreenCoord(PassedCenter.x, tigerTemplate[i][1],
                               ParticleScale(ROne))
            /\ particles[i].targetY =
                   ScreenCoord(PassedCenter.y, tigerTemplate[i][2],
                               ParticleScale(ROne))


\* C32: after a two-hand frame the gesture state carries the reason the
\* classifier returned for it, and when the frame was not detected the
\* status element shows that reason.
C32_ReasonDisplayed ==
    (lastEvent.kind = "frame" /\ ~lastEvent.threw /\ Len(currentHands) = 2) =>
        \A r \in Classified :
            /\ ReasonOf(gestureState) = r.reason
            /\ ~r.detected =>
                  GestureStatusText(currentHands, gestureState) = r.reason


\* C33: when a frame fires a spawn while particles of an earlier spawn are
\* live, those particles have reached the floating phase (age >= 500).
C33_FloatingBeforeReplaced ==
    [][(lastEvent'.kind = "frame" /\ lastEvent'.spawned) =>
          \A p \in Owned : p.age >= 500 /\ PhaseRank(p.phase) >= 2]_vars


\* C34: after every frame that was processed, the gesture state has
\* detected true exactly when its confidence is above 0; detected true only
\* with two hands in the frame and metrics present; and after a frame with
\* another number of hands it is detected false, confidence 0, no metrics.
C34_StateConsistent ==
    (lastEvent.kind = "frame" /\ ~lastEvent.threw) =>
        /\ gestureState.detected <=> RLt(RZero, gestureState.confidence)
        /\ gestureState.detected =>
              (Len(currentHands) = 2 /\ gestureState.metrics # NoMetrics)
        /\ Len(currentHands) # 2 =>
              /\ ~gestureState.detected
              /\ gestureState.confidence = RZero
              /\ gestureState.metrics = NoMetrics

\* a frame left the state detected with a confidence that fires no spawn
C34_Witness ==
    /\ lastEvent.kind = "frame"
    /\ ~lastEvent.spawned
    /\ gestureState.detected
    /\ RLt(RZero, gestureState.confidence)
    /\ gestureState.metrics # NoMetrics


\* C35: all particles of the set have the same age, and a tick never
\* removes a particle while it keeps one of a smaller maxAge.
C35_SameAge ==
    [][/\ \A i, j \in 1..Len(particles') :
              particles'[i].age = particles'[j].age
       /\ TickStep =>
              \A p \in Owned : \A i \in 1..Len(particles') :
                  (\A j \in 1..Len(particles') : particles'[j].id # p.id) =>
                      p.maxAge <= particles'[i].maxAge]_vars

\* after ticks, two particles of different lifetimes and phases at one age
C35_Witness ==
    /\ lastEvent.kind = "tick"
    /\ \E p, q \in Owned :
          /\ p.maxAge < q.maxAge
          /\ p.phase = "dying" /\ q.phase = "floating"
          /\ p.age = q.age /\ p.age > 4000

\* C36: the age of a particle is never above the time that has passed since
\* the spawn that created it.
C36_AgeWithinElapsed ==
    \A p \in Owned : p.age <= clock - p.born

\* C38: the engine is active exactly when its animationId is set.
C38_ActiveIffHandle ==
    isActive <=> animationId # 0

\* the loop running on a constellation spawned later than the first one
C38_Witness ==
    /\ lastEvent.kind = "tick"
    /\ isActive /\ animationId # 0
    /\ lastTime = clock
    /\ \E p \in Owned : p.born > 1000 /\ p.age = clock - p.born


\* 0.25 * (1 - 5/7) = 1/14, about 0.0714
FireLimit == RMul(WristThreshold, RSub(ROne, R(5, 7)))

\* C37: a frame fires a spawn only with a wrist distance below FireLimit;
\* with the centre distance and the stability of any classification, no
\* wrist distance of FireLimit or more gives a result that qualifies for a
\* spawn, although results are detected up to 0.25.
C37_FiresOnlyVeryClose ==
    /\ FrameFired =>
          \A r \in Classified : RLt(r.metrics[1].wristDistance, FireLimit)
    /\ \A r \in Classified : \A w \in 0..WristGrid :
          RLe(FireLimit, R(w, 100)) =>
              ~Qualifies(GestureResult(R(w, 100), r.metrics[1].centerDistance,
                                       r.metrics[1].stability))

\* a spawn fired at wrist distance 0.07 by a frame of full stability
C37_Witness ==
    /\ FrameFired
    /\ \E r \in Classified :
          /\ r.metrics[1].wristDistance = R(7, 100)
          /\ r.metrics[1].stability = ROne
          /\ RLt(ConfidenceTrigger, r.confidence)

=============================================================================
